---- MODULE Spec2Model ----
(***************************************************************************)
(* A model of pkg/http.go (package http of simple_httpclient): the Client  *)
(* constructor New, the request path Client.Do with its pooled fasthttp    *)
(* carriers, the URL resolver getURL, the query encoding of url.Values,    *)
(* mergeResponseHeaders and getResponseTime.                               *)
(*                                                                         *)
(* Go strings that the code looks into (URLs, query keys and values) are   *)
(* sequences of one-character strings; strings the code only copies        *)
(* (methods, header names and values, bodies) are TLA+ strings.  A Go      *)
(* pointer is Nil (the empty sequence) or PtrTo(x), a one-element one.     *)
(***************************************************************************)
EXTENDS Integers, Sequences, FiniteSets, TLC

VARIABLES
    client,     \* the *Client the Do calls run on
    opts,       \* opts[p]: the *DoOptions goroutine p passed to Do (caller-visible)
    given,      \* given[p]: opts[p] as it was when p called Do; when its StartTime
                \* was nil, the time of entry; the time the Response was built
    pc,         \* pc[p]: where goroutine p is in Do
    req,        \* req[p]: the request carrier p's local req points to (0: none)
    res,        \* res[p]: the response carrier p's local res points to (0: none)
    reqOwner,   \* reqOwner[c]: the calls that hold request carrier c ({}: pooled)
    resOwner,   \* resOwner[c]: the calls that hold response carrier c ({}: pooled)
    reqObj,     \* reqObj[c]: the contents of request carrier c
    resObj,     \* resObj[c]: the contents of response carrier c
    wire,       \* wire[p]: what the transport read and answered for p's call
    ret,        \* ret[p]: the (*Response, error) pair p's Do returns
    now,        \* the clock time.Now() reads, in microseconds
    urlIn,      \* input of one URL resolution (lines 233-242)
    urlOut,     \* its output
    newIn,      \* the arguments of one New call
    newOut      \* the Client it returned

vars == <<client, opts, given, pc, req, res, reqOwner, resOwner, reqObj,
          resObj, wire, ret, now, urlIn, urlOut, newIn, newOut>>

doVars == <<client, opts, given, pc, req, res, reqOwner, resOwner, reqObj,
            resObj, wire, ret, now>>

----------------------------------------------------------------------------
(* Bounds of the model. *)

\* goroutines calling Do on the one Client at the same time
NumCalls == 2

\* clock steps of half a millisecond that the model lets pass
MaxTicks == 2

\* entries of a Request.Query map in the URL resolution checks
MaxQuery == 2

----------------------------------------------------------------------------
(* Pointers, maps and strings. *)

Nil == <<>>

PtrTo(x) == <<x>>

Deref(p) == p[1]

EmptyMap == [k \in {} |-> ""]

\* m with m[k] = v (a Go map assignment, or a header Set)
MapSet(m, k, v) == [x \in DOMAIN m \cup {k} |-> IF x = k THEN v ELSE m[x]]

\* every sequence that lists the elements of S once: the orders in which a
\* range over a Go map with key set S can visit it
RECURSIVE Orders(_)
Orders(S) ==
    IF S = {} THEN {<<>>}
    ELSE UNION {{<<k>> \o o : o \in Orders(S \ {k})} : k \in S}

\* strings.HasPrefix
HasPrefix(s, prefix) ==
    /\ Len(s) >= Len(prefix)
    /\ SubSeq(s, 1, Len(prefix)) = prefix

\* the characters of the model's strings in byte order
ByteOrder ==
    <<" ", "%", "&", "+", "/", "1", "2", "3", "4", ":", "=", "?",
      "a", "b", "d", "h", "i", "o", "p", "s", "t", "u", "x", "y">>

Rank(c) == CHOOSE i \in 1..Len(ByteOrder) : ByteOrder[i] = c

\* s < t as Go compares strings (bytewise, a proper prefix first)
RECURSIVE StrLess(_, _)
StrLess(s, t) ==
    IF t = <<>> THEN FALSE
    ELSE IF s = <<>> THEN TRUE
    ELSE IF Head(s) = Head(t) THEN StrLess(Tail(s), Tail(t))
    ELSE Rank(Head(s)) < Rank(Head(t))

----------------------------------------------------------------------------
(* net/url: Values.Add, Values.Encode, QueryEscape. *)

\* one byte of url.QueryEscape: unreserved bytes stay, a space becomes "+",
\* every other byte becomes %XX
EscapeByte(c) ==
    CASE c = " " -> <<"+">>
      [] c = "%" -> <<"%", "2", "5">>
      [] c = "&" -> <<"%", "2", "6">>
      [] c = "+" -> <<"%", "2", "B">>
      [] c = "/" -> <<"%", "2", "F">>
      [] c = ":" -> <<"%", "3", "A">>
      [] c = "=" -> <<"%", "3", "D">>
      [] c = "?" -> <<"%", "3", "F">>
      [] OTHER -> <<c>>

RECURSIVE QueryEscape(_)
QueryEscape(s) ==
    IF s = <<>> THEN <<>> ELSE EscapeByte(Head(s)) \o QueryEscape(Tail(s))

\* qp.Add(k, v) on a url.Values (a map from key to the list of its values)
ValuesAdd(qp, k, v) ==
    MapSet(qp, k, IF k \in DOMAIN qp THEN Append(qp[k], v) ELSE <<v>>)

\* the loop of lines 235-238, visiting the Query map in the order `order`
RECURSIVE QueryLoop(_, _, _)
QueryLoop(qp, query, order) ==
    IF order = <<>> THEN qp
    ELSE QueryLoop(ValuesAdd(qp, Head(order), query[Head(order)]),
                   query, Tail(order))

\* the keys of a url.Values in ascending order (sort.Strings in Encode)
RECURSIVE SortedKeys(_)
SortedKeys(S) ==
    IF S = {} THEN <<>>
    ELSE LET m == CHOOSE k \in S : \A j \in S \ {k} : StrLess(k, j)
         IN <<m>> \o SortedKeys(S \ {m})

\* key=value for every value of one key, "&" between them
RECURSIVE EncodeKey(_, _, _)
EncodeKey(k, vs, first) ==
    IF vs = <<>> THEN <<>>
    ELSE (IF first THEN <<>> ELSE <<"&">>)
         \o QueryEscape(k) \o <<"=">> \o QueryEscape(Head(vs))
         \o EncodeKey(k, Tail(vs), FALSE)

RECURSIVE EncodeKeys(_, _, _)
EncodeKeys(qp, keys, first) ==
    IF keys = <<>> THEN <<>>
    ELSE EncodeKey(Head(keys), qp[Head(keys)], first)
         \o EncodeKeys(qp, Tail(keys), FALSE)

\* url.Values.Encode: "URL encoded" form sorted by key
ValuesEncode(qp) == EncodeKeys(qp, SortedKeys(DOMAIN qp), TRUE)

----------------------------------------------------------------------------
(* Client.getURL and the URL that Do submits. *)

HTTP == <<"h", "t", "t", "p">>

HTTPS == <<"h", "t", "t", "p", "s">>

\* a getURL without the scheme check
getURLAlwaysJoin(baseURL, rURL) == baseURL \o rURL

\* lines 272-278
getURL(baseURL, rURL) ==
    IF HasPrefix(rURL, HTTP) \/ HasPrefix(rURL, HTTPS)
    THEN rURL
    ELSE baseURL \o rURL

\* a resolution that appends the parameters as if u held a query already
FinalURLAmp(baseURL, rURL, query, order) ==
    LET u == getURL(baseURL, rURL)
        qp == QueryLoop([k \in {} |-> <<>>], query, order)
    IN IF Cardinality(DOMAIN qp) > 0
       THEN u \o <<"&">> \o ValuesEncode(qp)
       ELSE u

\* lines 233-242: u after the query parameters were appended
FinalURL(baseURL, rURL, query, order) ==
    LET u == getURL(baseURL, rURL)
        qp == QueryLoop([k \in {} |-> <<>>], query, order)
    IN IF Cardinality(DOMAIN qp) > 0
       THEN u \o <<"?">> \o ValuesEncode(qp)
       ELSE u

----------------------------------------------------------------------------
(* Client and New. *)

\* time.Second and time.Millisecond.  The model counts time in microseconds
\* (30 s in nanoseconds is beyond TLC's integers).
Second == 1000000

Millisecond == 1000

DefaultAttemps == 5

\* the options New starts from (lines 200-204)
DefaultOptions ==
    [BaseURL |-> <<>>, DefaultContentType |-> "application/json",
     Timeout |-> 30 * Second, Attemps |-> DefaultAttemps, TLSCert |-> ""]

\* New(opts ...*NewClientOptions): o is the list of arguments
New(o) ==
    LET opt == IF Len(o) > 0 THEN o[1] ELSE DefaultOptions
    IN [baseURL |-> opt.BaseURL,
        contentType |-> opt.DefaultContentType,
        timeout |-> opt.Timeout,
        attempts |-> opt.Attemps]

----------------------------------------------------------------------------
(* The carriers of fasthttp and what Do writes into them. *)

Procs == 1..NumCalls

\* one request carrier and one response carrier per call can be in use
Carriers == 1..NumCalls

\* a carrier as AcquireRequest / AcquireResponse hand it out
ReqZero == [uri |-> <<>>, method |-> "", header |-> EmptyMap, body |-> ""]

ResZero == [status |-> 0, header |-> <<>>, body |-> ""]

\* ReleaseRequest, ReleaseResponse: the carrier is Reset and put back
Released(obj, zero) == zero

\* a carrier that every call may take, held or not
PoolGetShared(owner, c) == TRUE

\* sync.Pool's Get hands a pooled object to one taker: c can be acquired
\* when no call holds it
PoolGet(owner, c) == owner[c] = {}

\* the carrier an Acquire returns.  Pooled carriers were Reset and a new one
\* is zero as well, so which one it is cannot be told: the lowest is taken.
PoolTake(owner) ==
    CHOOSE c \in Carriers :
        PoolGet(owner, c) /\ \A d \in 1..(c - 1) : ~PoolGet(owner, d)

CType == "Content-Type"

\* a content type that ignores Request.ContentType
cTypeDefaultOnly(cl, r) == cl.contentType

\* lines 244-247
cType(cl, r) ==
    IF r.ContentType # "" THEN r.ContentType ELSE cl.contentType

\* the loop of lines 254-256, visiting the Headers map in the order `order`
RECURSIVE HeaderLoop(_, _, _)
HeaderLoop(header, headers, order) ==
    IF order = <<>> THEN header
    ELSE HeaderLoop(MapSet(header, Head(order), headers[Head(order)]),
                    headers, Tail(order))

\* a build that applies the Headers entries before SetContentType
SetRequestHeadersFirst(c, cl, r, qorder, horder) ==
    LET c1 == [c EXCEPT !.uri = FinalURL(cl.baseURL, r.URL, r.Query, qorder)]
        c2 == [c1 EXCEPT !.method = r.Method]
        c3 == [c2 EXCEPT !.header = HeaderLoop(@, r.Headers, horder)]
        c4 == [c3 EXCEPT !.header = MapSet(@, CType, cType(cl, r))]
    IN [c4 EXCEPT !.body = r.Body]

\* lines 233-256: what Do writes into the request carrier c
SetRequest(c, cl, r, qorder, horder) ==
    LET c1 == [c EXCEPT !.uri = FinalURL(cl.baseURL, r.URL, r.Query, qorder)]
        c2 == [c1 EXCEPT !.method = r.Method]
        c3 == [c2 EXCEPT !.header = MapSet(@, CType, cType(cl, r))]
        c4 == [c3 EXCEPT !.body = r.Body]
    IN [c4 EXCEPT !.header = HeaderLoop(@, r.Headers, horder)]

\* mergeResponseHeaders: h is the list of headers VisitAll visits
RECURSIVE mergeResponseHeaders(_)
mergeResponseHeaders(h) ==
    IF h = <<>> THEN EmptyMap
    ELSE LET last == h[Len(h)]
         IN MapSet(mergeResponseHeaders(SubSeq(h, 1, Len(h) - 1)),
                   last[1], last[2])

\* Duration.Milliseconds: the duration in whole milliseconds, rounded to zero
Milliseconds(d) ==
    IF d >= 0 THEN d \div Millisecond ELSE -((-d) \div Millisecond)

\* start.Sub(*end) for end.Sub(*start)
getResponseTimeSwapped(start, end) == Milliseconds(Deref(start) - Deref(end))

\* lines 290-292
getResponseTime(start, end) == Milliseconds(Deref(end) - Deref(start))

\* an entry that overwrites a supplied StartTime
StartTimeAlwaysNow(st, t) == PtrTo(t)

\* lines 223-226: opts.StartTime after the entry check, at time t
StartTimeAtEntry(st, t) == IF st = Nil THEN PtrTo(t) ELSE st

\* an error return that runs no release
AfterErrorNoDefer == "done"

\* where Do goes after `return nil, err` (line 259): to the deferred calls
AfterError == "releaseRes"

\* an error return that hands out a Response as well
ReturnErrorWithResponse(e) ==
    [resp |-> PtrTo([StatusCode |-> 0, Body |-> "", Headers |-> EmptyMap,
                     Time |-> 0]),
     err |-> PtrTo(e)]

\* line 259: return nil, err
ReturnError(e) == [resp |-> Nil, err |-> PtrTo(e)]

\* the Response of lines 264-269, read from response carrier r
ResponseOf(r, start, end) ==
    [StatusCode |-> r.status,
     Body |-> r.body,
     Headers |-> mergeResponseHeaders(r.header),
     Time |-> getResponseTime(start, end)]

----------------------------------------------------------------------------
(* The inputs of the Do calls. *)

HalfMs == Millisecond \div 2

\* a start time no call of the model reaches
Future == (MaxTicks + 2) * Millisecond

RelURL == <<"/", "u">>

AbsURL == <<"h", "t", "t", "p", ":", "o">>

BaseURL == <<"h", "t", "t", "p", ":", "a">>

IdKey == <<"i", "d">>

IdVal == <<"4", "2">>

ZeroRequest ==
    [URL |-> <<>>, Method |-> "", ContentType |-> "", Headers |-> EmptyMap,
     Query |-> [k \in {} |-> <<>>], Body |-> ""]

ZeroOptions == [StartTime |-> Nil, Request |-> ZeroRequest]

HeaderMaps ==
    {EmptyMap,
     [k \in {"X-A"} |-> "1"],
     [k \in {CType} |-> "text/html"],
     [k \in {CType, "X-A"} |-> IF k = CType THEN "text/html" ELSE "1"]}

\* the Requests of a single caller
Requests ==
    {[URL |-> u, Method |-> mbq[1], ContentType |-> ct, Headers |-> h,
      Query |-> mbq[3], Body |-> mbq[2]] :
        u \in {RelURL, AbsURL},
        mbq \in {<<"GET", "", [k \in {} |-> <<>>]>>,
                 <<"POST", "{}", [k \in {IdKey} |-> IdVal]>>},
        ct \in {"", "text/plain"},
        h \in HeaderMaps}

StartTimes == {Nil, PtrTo(0), PtrTo(Future)}

DoOptionsSet == [StartTime : StartTimes, Request : Requests]

\* the DoOptions of callers that run at the same time
ConcOptions ==
    {[StartTime |-> Nil,
      Request |-> [ZeroRequest EXCEPT !.URL = RelURL, !.Method = "GET"]],
     [StartTime |-> PtrTo(0),
      Request |-> [URL |-> AbsURL, Method |-> "POST",
                   ContentType |-> "text/plain",
                   Headers |-> [k \in {"X-A"} |-> "1"],
                   Query |-> [k \in {IdKey} |-> IdVal],
                   Body |-> "{}"]]}

\* what the transport can write into the response carrier
ServerReplies ==
    {[status |-> 200, body |-> "ok",
      header |-> << <<CType, "text/plain">> >>],
     [status |-> 404, body |-> "",
      header |-> << <<"X-B", "1">>, <<"X-B", "2">> >>]}

\* the errors DoTimeout can return
TransportErrors == {"ErrTimeout", "ErrConnection"}

\* the Clients the calls run on: New() and New(&NewClientOptions{...})
CustomOptions ==
    [BaseURL |-> BaseURL, DefaultContentType |-> "application/xml",
     Timeout |-> 50 * Millisecond, Attemps |-> 1, TLSCert |-> ""]

NoCall == [sent |-> Nil, reply |-> Nil, err |-> Nil]

NoGiven == [opts |-> ZeroOptions, entry |-> 0, end |-> 0]

NoReturn == [resp |-> Nil, err |-> Nil]

----------------------------------------------------------------------------
(* Client.Do, one action per step of goroutine p. *)

InitDo(clients) ==
    /\ client \in clients
    /\ opts = [p \in Procs |-> ZeroOptions]
    /\ given = [p \in Procs |-> NoGiven]
    /\ pc = [p \in Procs |-> "idle"]
    /\ req = [p \in Procs |-> 0]
    /\ res = [p \in Procs |-> 0]
    /\ reqOwner = [c \in Carriers |-> {}]
    /\ resOwner = [c \in Carriers |-> {}]
    /\ reqObj = [c \in Carriers |-> ReqZero]
    /\ resObj = [c \in Carriers |-> ResZero]
    /\ wire = [p \in Procs |-> NoCall]
    /\ ret = [p \in Procs |-> NoReturn]
    /\ now = 0

\* the caller builds a DoOptions o and calls Do (line 222)
Call(p, O) ==
    /\ pc[p] \in {"idle", "done"}
    /\ \E o \in O :
        /\ opts' = [opts EXCEPT ![p] = o]
        /\ given' = [given EXCEPT ![p] = [opts |-> o, entry |-> 0, end |-> 0]]
    /\ pc' = [pc EXCEPT ![p] = "entry"]
    /\ req' = [req EXCEPT ![p] = 0]
    /\ res' = [res EXCEPT ![p] = 0]
    /\ wire' = [wire EXCEPT ![p] = NoCall]
    /\ ret' = [ret EXCEPT ![p] = NoReturn]
    /\ UNCHANGED <<client, reqOwner, resOwner, reqObj, resObj, now,
                   urlIn, urlOut, newIn, newOut>>

\* lines 223-226
DoStartTime(p) ==
    /\ pc[p] = "entry"
    /\ opts' = [opts EXCEPT ![p].StartTime = StartTimeAtEntry(@, now)]
    /\ given' = [given EXCEPT ![p].entry =
                     IF opts[p].StartTime = Nil THEN now ELSE 0]
    /\ pc' = [pc EXCEPT ![p] = "acquireReq"]
    /\ UNCHANGED <<client, req, res, reqOwner, resOwner, reqObj, resObj,
                   wire, ret, now, urlIn, urlOut, newIn, newOut>>

\* line 228
DoAcquireRequest(p) ==
    /\ pc[p] = "acquireReq"
    /\ LET c == PoolTake(reqOwner)
       IN /\ req' = [req EXCEPT ![p] = c]
          /\ reqOwner' = [reqOwner EXCEPT ![c] = @ \cup {p}]
    /\ pc' = [pc EXCEPT ![p] = "acquireRes"]
    /\ UNCHANGED <<client, opts, given, res, resOwner, reqObj, resObj,
                   wire, ret, now, urlIn, urlOut, newIn, newOut>>

\* line 229
DoAcquireResponse(p) ==
    /\ pc[p] = "acquireRes"
    /\ LET c == PoolTake(resOwner)
       IN /\ res' = [res EXCEPT ![p] = c]
          /\ resOwner' = [resOwner EXCEPT ![c] = @ \cup {p}]
    /\ pc' = [pc EXCEPT ![p] = "build"]
    /\ UNCHANGED <<client, opts, given, req, reqOwner, reqObj, resObj,
                   wire, ret, now, urlIn, urlOut, newIn, newOut>>

\* lines 233-256
DoBuild(p) ==
    /\ pc[p] = "build"
    /\ \E qorder \in Orders(DOMAIN opts[p].Request.Query),
          horder \in Orders(DOMAIN opts[p].Request.Headers) :
        reqObj' = [reqObj EXCEPT ![req[p]] =
                      SetRequest(@, client, opts[p].Request, qorder, horder)]
    /\ pc' = [pc EXCEPT ![p] = "send"]
    /\ UNCHANGED <<client, opts, given, req, res, reqOwner, resOwner,
                   resObj, wire, ret, now, urlIn, urlOut, newIn, newOut>>

\* line 258, DoTimeout returning nil: the transport read the request
\* carrier and wrote the server's reply into the response carrier
DoTimeoutOK(p) ==
    /\ pc[p] = "send"
    /\ \E r \in ServerReplies :
        /\ resObj' = [resObj EXCEPT ![res[p]] = r]
        /\ wire' = [wire EXCEPT ![p] =
                       [sent |-> PtrTo(reqObj[req[p]]),
                        reply |-> PtrTo(r), err |-> Nil]]
    /\ pc' = [pc EXCEPT ![p] = "assemble"]
    /\ UNCHANGED <<client, opts, given, req, res, reqOwner, resOwner,
                   reqObj, ret, now, urlIn, urlOut, newIn, newOut>>

\* lines 258-260, DoTimeout returning an error: return nil, err
DoTimeoutErr(p, E) ==
    /\ pc[p] = "send"
    /\ \E e \in E :
        /\ wire' = [wire EXCEPT ![p] =
                       [sent |-> PtrTo(reqObj[req[p]]),
                        reply |-> Nil, err |-> PtrTo(e)]]
        /\ ret' = [ret EXCEPT ![p] = ReturnError(e)]
    /\ pc' = [pc EXCEPT ![p] = AfterError]
    /\ UNCHANGED <<client, opts, given, req, res, reqOwner, resOwner,
                   reqObj, resObj, now, urlIn, urlOut, newIn, newOut>>

\* lines 262-269: the return value is built before the deferred calls run
DoAssemble(p) ==
    /\ pc[p] = "assemble"
    /\ ret' = [ret EXCEPT ![p] =
                  [resp |-> PtrTo(ResponseOf(resObj[res[p]],
                                             opts[p].StartTime, PtrTo(now))),
                   err |-> Nil]]
    /\ given' = [given EXCEPT ![p].end = now]
    /\ pc' = [pc EXCEPT ![p] = "releaseRes"]
    /\ UNCHANGED <<client, opts, req, res, reqOwner, resOwner, reqObj,
                   resObj, wire, now, urlIn, urlOut, newIn, newOut>>

\* line 231, deferred: runs first
DoReleaseResponse(p) ==
    /\ pc[p] = "releaseRes"
    /\ resObj' = [resObj EXCEPT ![res[p]] = Released(@, ResZero)]
    /\ resOwner' = [resOwner EXCEPT ![res[p]] = @ \ {p}]
    /\ res' = [res EXCEPT ![p] = 0]
    /\ pc' = [pc EXCEPT ![p] = "releaseReq"]
    /\ UNCHANGED <<client, opts, given, req, reqOwner, reqObj, wire,
                   ret, now, urlIn, urlOut, newIn, newOut>>

\* line 230, deferred: runs last, then Do has returned
DoReleaseRequest(p) ==
    /\ pc[p] = "releaseReq"
    /\ reqObj' = [reqObj EXCEPT ![req[p]] = Released(@, ReqZero)]
    /\ reqOwner' = [reqOwner EXCEPT ![req[p]] = @ \ {p}]
    /\ req' = [req EXCEPT ![p] = 0]
    /\ pc' = [pc EXCEPT ![p] = "done"]
    /\ UNCHANGED <<client, opts, given, res, resOwner, resObj, wire,
                   ret, now, urlIn, urlOut, newIn, newOut>>

\* time passes
Tick ==
    /\ now < MaxTicks * HalfMs
    /\ now' = now + HalfMs
    /\ UNCHANGED <<client, opts, given, pc, req, res, reqOwner, resOwner,
                   reqObj, resObj, wire, ret, urlIn, urlOut, newIn, newOut>>

DoStep(p, E) ==
    \/ DoStartTime(p)
    \/ DoAcquireRequest(p)
    \/ DoAcquireResponse(p)
    \/ DoBuild(p)
    \/ DoTimeoutOK(p)
    \/ DoTimeoutErr(p, E)
    \/ DoAssemble(p)
    \/ DoReleaseResponse(p)
    \/ DoReleaseRequest(p)

\* one caller, calling Do again and again on either Client
Init ==
    /\ InitDo({New(<<>>), New(<<CustomOptions>>)})
    /\ urlIn = Nil /\ urlOut = Nil /\ newIn = Nil /\ newOut = Nil

Next == Call(1, DoOptionsSet) \/ DoStep(1, TransportErrors) \/ Tick

Spec == Init /\ [][Next]_vars

\* NumCalls callers on the same Client
InitConc ==
    /\ InitDo({New(<<CustomOptions>>)})
    /\ urlIn = Nil /\ urlOut = Nil /\ newIn = Nil /\ newOut = Nil

NextConc == \E p \in Procs : Call(p, ConcOptions) \/ DoStep(p, {"ErrTimeout"})

SpecConc == InitConc /\ [][NextConc]_vars

----------------------------------------------------------------------------
(* The URL resolution of Do (lines 233-242) on its own, over more URLs,   *)
(* base URLs and Query maps than the Do calls above use.                   *)

URLs ==
    {<<>>,
     <<"/", "u">>,
     <<"/", "u", "?", "a", "=", "1">>,
     <<"h", "t", "t">>,
     <<"h", "t", "t", "p">>,
     <<"h", "t", "t", "p", "x">>,
     <<"h", "t", "t", "p", "s", ":", "o">>,
     <<"h", "t", "t", "p", ":", "o", "?", "a", "=", "1">>}

BaseURLs == {<<>>, BaseURL, BaseURL \o <<"/">>}

QKeys == {IdKey, <<"a", " ", "b">>, <<"x", "&", "y">>, <<"%", "=">>}

QVals == {<<>>, IdVal, <<"1", "+", "?">>}

QueryMaps ==
    UNION {[D -> QVals] : D \in {D \in SUBSET QKeys : Cardinality(D) <= MaxQuery}}

InitURL ==
    /\ InitDo({New(<<>>)})
    /\ urlIn \in {PtrTo(i) : i \in [baseURL : BaseURLs, URL : URLs, Query : QueryMaps]}
    /\ urlOut = Nil
    /\ newIn = Nil
    /\ newOut = Nil

\* lines 233-242 for the Client and Request of urlIn, the range over the
\* Query map visiting it in any order
DoResolve ==
    /\ urlIn # Nil
    /\ urlOut = Nil
    /\ LET i == Deref(urlIn)
       IN \E order \in Orders(DOMAIN i.Query) :
            urlOut' = PtrTo([resolved |-> getURL(i.baseURL, i.URL),
                             final |-> FinalURL(i.baseURL, i.URL, i.Query, order)])
    /\ UNCHANGED <<doVars, urlIn, newIn, newOut>>

NextURL == DoResolve

SpecURL == InitURL /\ [][NextURL]_vars

----------------------------------------------------------------------------
(* New on its own, over the argument lists a caller can pass. *)

NewClientOptions ==
    [BaseURL : {<<>>, BaseURL},
     DefaultContentType : {"", "application/json", "text/plain"},
     Timeout : {0, 50 * Millisecond, 30 * Second},
     Attemps : {0, 1, DefaultAttemps},
     TLSCert : {"", "cert.pem"}]

InitNew ==
    /\ InitDo({New(<<>>)})
    /\ urlIn = Nil
    /\ urlOut = Nil
    /\ newIn \in {PtrTo(<<>>)} \cup {PtrTo(<<o>>) : o \in NewClientOptions}
    /\ newOut = Nil

\* c := New(opts...)
NewCall ==
    /\ newIn # Nil
    /\ newOut = Nil
    /\ newOut' = PtrTo(New(Deref(newIn)))
    /\ UNCHANGED <<doVars, urlIn, urlOut, newIn>>

NextNew == NewCall

SpecNew == InitNew /\ [][NextNew]_vars

----------------------------------------------------------------------------
(* What the claims are stated with. *)

InDo(p) == pc[p] \notin {"idle", "done"}

Succeeded(p) == pc[p] = "done" /\ ret[p].resp # Nil

Failed(p) == pc[p] = "done" /\ ret[p].err # Nil

\* the content type lines 244-247 choose for Request r on Client cl
ChosenContentType(cl, r) ==
    IF r.ContentType = "" THEN cl.contentType ELSE r.ContentType

\* the request carrier a call with Request r on Client cl must submit
ExpectedRequest(cl, r) ==
    [uri |-> FinalURL(cl.baseURL, r.URL, r.Query, SortedKeys(DOMAIN r.Query)),
     method |-> r.Method,
     header |-> [k \in DOMAIN r.Headers \cup {CType} |->
                    IF k \in DOMAIN r.Headers THEN r.Headers[k]
                    ELSE ChosenContentType(cl, r)],
     body |-> r.Body]

\* Response resp carries the status, body and headers of the reply
CarriesReply(resp, reply) ==
    /\ DOMAIN resp = {"StatusCode", "Body", "Headers", "Time"}
    /\ resp.StatusCode = reply.status
    /\ resp.Body = reply.body
    /\ DOMAIN resp.Headers = {reply.header[i][1] : i \in DOMAIN reply.header}
    /\ \A i \in DOMAIN reply.header :
          (\A j \in DOMAIN reply.header :
              j > i => reply.header[j][1] # reply.header[i][1])
          => resp.Headers[reply.header[i][1]] = reply.header[i][2]

----------------------------------------------------------------------------
(* C1 *)

\* C1: a call holds one request carrier and one response carrier while it
\* builds, sends and assembles; once Do has returned, with a Response or with
\* the transport's error, the call holds no carrier; when every call has
\* returned, every carrier is back in its pool.
C1_CarriersReleased ==
    /\ \A p \in Procs :
          pc[p] \in {"build", "send", "assemble"} =>
              /\ req[p] \in Carriers /\ p \in reqOwner[req[p]]
              /\ res[p] \in Carriers /\ p \in resOwner[res[p]]
    /\ \A p \in Procs :
          ~InDo(p) => \A c \in Carriers : p \notin reqOwner[c] /\ p \notin resOwner[c]
    /\ (\A p \in Procs : ~InDo(p)) =>
          \A c \in Carriers : reqOwner[c] = {} /\ resOwner[c] = {}

C1_Witness ==
    \E p, q \in Procs :
        /\ Failed(p) /\ Succeeded(q)
        /\ \A c \in Carriers : reqOwner[c] = {} /\ resOwner[c] = {}

----------------------------------------------------------------------------
(* C2 *)

\* C2: a Do call that has returned returned either a Response carrying the
\* status, body and headers of the transport's reply and a Time, with a nil
\* error, or a nil Response with the very error the transport returned; the
\* first exactly when the transport succeeded.
C2_ResponseOrError ==
    \A p \in Procs :
        pc[p] = "done" =>
            /\ (ret[p].resp = Nil) # (ret[p].err = Nil)
            /\ wire[p].err # Nil => ret[p].resp = Nil /\ ret[p].err = wire[p].err
            /\ wire[p].err = Nil =>
                  /\ ret[p].resp # Nil
                  /\ wire[p].reply # Nil
                  /\ CarriesReply(Deref(ret[p].resp), Deref(wire[p].reply))

C2_Witness ==
    /\ pc[1] = "done"
    /\ wire[1].err = PtrTo("ErrTimeout")
    /\ ret[1] = [resp |-> Nil, err |-> PtrTo("ErrTimeout")]

----------------------------------------------------------------------------
(* C3 *)

\* C3: the URL Do resolves is Request.URL itself when its first four
\* characters are "http", whatever BaseURL is, and BaseURL immediately
\* followed by Request.URL otherwise; the submitted URL starts with it and,
\* with an empty Query map, is it.
C3_ResolvedURL ==
    urlOut # Nil =>
        LET i == Deref(urlIn)
            o == Deref(urlOut)
            absolute == /\ Len(i.URL) >= 4
                        /\ \A n \in 1..4 : i.URL[n] = <<"h", "t", "t", "p">>[n]
        IN /\ absolute => o.resolved = i.URL
           /\ ~absolute =>
                 /\ Len(o.resolved) = Len(i.baseURL) + Len(i.URL)
                 /\ \A n \in 1..Len(i.baseURL) : o.resolved[n] = i.baseURL[n]
                 /\ \A n \in 1..Len(i.URL) :
                       o.resolved[Len(i.baseURL) + n] = i.URL[n]
           /\ Len(o.final) >= Len(o.resolved)
           /\ SubSeq(o.final, 1, Len(o.resolved)) = o.resolved
           /\ DOMAIN i.Query = {} => o.final = o.resolved

C3_Witness ==
    /\ urlOut # Nil
    /\ Deref(urlIn).URL = <<"h", "t", "t", "p", "x">>
    /\ Deref(urlIn).baseURL = BaseURL
    /\ Deref(urlOut).resolved = <<"h", "t", "t", "p", "x">>

----------------------------------------------------------------------------
(* C4: the query string is read back the way url.ParseQuery reads it. *)

\* the first place of character c in s, 0 when there is none
IndexOf(s, c) ==
    IF \E n \in 1..Len(s) : s[n] = c
    THEN CHOOSE n \in 1..Len(s) : s[n] = c /\ \A m \in 1..(n - 1) : s[m] # c
    ELSE 0

\* s cut at every c
RECURSIVE SplitOn(_, _)
SplitOn(s, c) ==
    LET n == IndexOf(s, c)
    IN IF n = 0 THEN <<s>>
       ELSE <<SubSeq(s, 1, n - 1)>> \o SplitOn(SubSeq(s, n + 1, Len(s)), c)

\* the byte that %ab stands for
HexByte(a, b) ==
    CASE a = "2" /\ b = "5" -> "%"
      [] a = "2" /\ b = "6" -> "&"
      [] a = "2" /\ b = "B" -> "+"
      [] a = "2" /\ b = "F" -> "/"
      [] a = "3" /\ b = "A" -> ":"
      [] a = "3" /\ b = "D" -> "="
      [] a = "3" /\ b = "F" -> "?"
      [] OTHER -> "?bad"

\* url.QueryUnescape
RECURSIVE QueryUnescape(_)
QueryUnescape(s) ==
    IF s = <<>> THEN <<>>
    ELSE IF Head(s) = "+" THEN <<" ">> \o QueryUnescape(Tail(s))
    ELSE IF Head(s) = "%" /\ Len(s) >= 3
         THEN <<HexByte(s[2], s[3])>> \o QueryUnescape(SubSeq(s, 4, Len(s)))
    ELSE <<Head(s)>> \o QueryUnescape(Tail(s))

\* the <<key, value>> pair of one key=value piece
ParsePair(piece) ==
    LET n == IndexOf(piece, "=")
    IN IF n = 0 THEN <<QueryUnescape(piece), <<>> >>
       ELSE <<QueryUnescape(SubSeq(piece, 1, n - 1)),
              QueryUnescape(SubSeq(piece, n + 1, Len(piece)))>>

\* url.ParseQuery: the pairs of a query string, in its order
ParseQuery(q) ==
    LET pieces == SelectSeq(SplitOn(q, "&"), LAMBDA x : x # <<>>)
    IN [n \in 1..Len(pieces) |-> ParsePair(pieces[n])]

\* C4: with a non-empty Query map, whatever order the map is visited in, the
\* submitted URL is the resolved URL (kept whole, also when it holds a "?"),
\* a "?", and a query string whose parameters are the map's key/value pairs,
\* each once and nothing else.
C4_QueryParameters ==
    (urlOut # Nil /\ DOMAIN Deref(urlIn).Query # {}) =>
        LET i == Deref(urlIn)
            o == Deref(urlOut)
            k == Len(o.resolved)
            q == SubSeq(o.final, k + 2, Len(o.final))
            pairs == ParseQuery(q)
        IN /\ Len(o.final) > k
           /\ SubSeq(o.final, 1, k) = o.resolved
           /\ o.final[k + 1] = "?"
           /\ Len(pairs) = Cardinality(DOMAIN i.Query)
           /\ \A key \in DOMAIN i.Query :
                 Cardinality({n \in 1..Len(pairs) :
                                 pairs[n] = <<key, i.Query[key]>>}) = 1

C4_Witness ==
    /\ urlOut # Nil
    /\ Deref(urlIn).URL = <<"/", "u", "?", "a", "=", "1">>
    /\ Deref(urlIn).baseURL = BaseURL
    /\ DOMAIN Deref(urlIn).Query = {<<"x", "&", "y">>, <<"%", "=">>}
    /\ Deref(urlIn).Query[<<"x", "&", "y">>] = <<"1", "+", "?">>
    /\ Deref(urlOut).final =
          BaseURL \o <<"/", "u", "?", "a", "=", "1", "?">>
          \o <<"%", "2", "5", "%", "3", "D", "=">>
          \o QueryEscape(Deref(urlIn).Query[<<"%", "=">>])
          \o <<"&", "x", "%", "2", "6", "y", "=", "1", "%", "2", "B", "%", "3", "F">>

----------------------------------------------------------------------------
(* C5 *)

\* C5: in every request the transport was given, the content-type header is
\* Request.ContentType when that is non-empty and the Client's default
\* content type otherwise, provided Request.Headers has no entry for the
\* content-type header; when it has one, the header is that entry's value.
C5_ContentType ==
    \A p \in Procs :
        wire[p].sent # Nil =>
            LET r == given[p].opts.Request
                sent == Deref(wire[p].sent)
            IN /\ CType \in DOMAIN sent.header
               /\ CType \notin DOMAIN r.Headers =>
                     sent.header[CType] = ChosenContentType(client, r)
               /\ CType \in DOMAIN r.Headers =>
                     sent.header[CType] = r.Headers[CType]

C5_Witness ==
    /\ wire[1].sent # Nil
    /\ client.contentType = "application/json"
    /\ given[1].opts.Request.ContentType = "text/plain"
    /\ DOMAIN given[1].opts.Request.Headers = {"X-A"}
    /\ Deref(wire[1].sent).header[CType] = "text/plain"

\* C5 as claimed: in every request the transport was given, the content-type
\* header is Request.ContentType when that is non-empty and the Client's
\* default content type otherwise.
C5_Original ==
    \A p \in Procs :
        wire[p].sent # Nil =>
            Deref(wire[p].sent).header[CType]
                = ChosenContentType(client, given[p].opts.Request)

----------------------------------------------------------------------------
(* C6 *)

\* C6: the Time of a returned Response is >= 0 when the start time was
\* captured at call entry, and for a start time the caller supplied when it
\* is not later than the time the Response was built; a supplied start time
\* a millisecond or more after that time gives a Time below 0.
C6_TimeSign ==
    \A p \in Procs :
        Succeeded(p) =>
            LET t == Deref(ret[p].resp).Time
                start == Deref(opts[p].StartTime)
            IN /\ given[p].opts.StartTime = Nil => t >= 0
               /\ start <= given[p].end => t >= 0
               /\ start >= given[p].end + Millisecond => t < 0

C6_Witness ==
    /\ Succeeded(1)
    /\ given[1].opts.StartTime = Nil
    /\ given[1].end - given[1].entry = 2 * HalfMs
    /\ Deref(ret[1].resp).Time = 1

\* C6 as claimed: the Time of a returned Response is >= 0, whatever start
\* time the call ran with.
C6_Original ==
    \A p \in Procs : Succeeded(p) => Deref(ret[p].resp).Time >= 0

----------------------------------------------------------------------------
(* C7 *)

\* C7: a Client built by New has content type "application/json", timeout
\* 30 s and 5 attempts for each of these that the caller did not supply:
\* when New got no options, and when it got options with that field unset
\* (the field's zero value).
C7_Defaults ==
    newOut # Nil =>
        LET a == Deref(newIn)
            c == Deref(newOut)
        IN /\ (Len(a) = 0 \/ a[1].DefaultContentType = "")
                 => c.contentType = "application/json"
           /\ (Len(a) = 0 \/ a[1].Timeout = 0) => c.timeout = 30 * Second
           /\ (Len(a) = 0 \/ a[1].Attemps = 0) => c.attempts = 5

----------------------------------------------------------------------------
(* C8 *)

\* C8: with several calls running on one Client, no carrier is held by two
\* calls at once, the carriers of two running calls differ, the request a
\* call submits is the one its own Request and the Client determine, the
\* response carrier a call reads holds the reply to that call, and what a
\* call returns is built from the reply, or is the error, of that call.
C8_PrivateCarriers ==
    /\ \A c \in Carriers :
          Cardinality(reqOwner[c]) <= 1 /\ Cardinality(resOwner[c]) <= 1
    /\ \A p, q \in Procs :
          (p # q /\ req[p] # 0 /\ req[q] # 0) => req[p] # req[q]
    /\ \A p, q \in Procs :
          (p # q /\ res[p] # 0 /\ res[q] # 0) => res[p] # res[q]
    /\ \A p \in Procs :
          /\ pc[p] = "send" =>
                reqObj[req[p]] = ExpectedRequest(client, given[p].opts.Request)
          /\ wire[p].sent # Nil =>
                Deref(wire[p].sent) = ExpectedRequest(client, given[p].opts.Request)
          /\ pc[p] = "assemble" => resObj[res[p]] = Deref(wire[p].reply)
          /\ Succeeded(p) =>
                CarriesReply(Deref(ret[p].resp), Deref(wire[p].reply))
          /\ Failed(p) => ret[p].err = wire[p].err

C8_Witness ==
    /\ pc[1] = "assemble"
    /\ pc[2] = "assemble"
    /\ given[1].opts # given[2].opts
    /\ wire[1].sent # wire[2].sent
    /\ wire[1].reply # wire[2].reply
    /\ req[1] # req[2]
    /\ res[1] # res[2]

----------------------------------------------------------------------------
(* C9 *)

\* C9: in the request the transport was given, method, body and URI are the
\* Request's, every key of Request.Headers carries its Request.Headers
\* value, also the content-type key, which otherwise carries the content
\* type set before the Headers were applied; there are no other headers.
C9_HeadersLast ==
    \A p \in Procs :
        wire[p].sent # Nil =>
            LET r == given[p].opts.Request
                sent == Deref(wire[p].sent)
            IN /\ sent.method = r.Method
               /\ sent.body = r.Body
               /\ sent.uri = FinalURL(client.baseURL, r.URL, r.Query,
                                      SortedKeys(DOMAIN r.Query))
               /\ DOMAIN sent.header = DOMAIN r.Headers \cup {CType}
               /\ \A k \in DOMAIN r.Headers : sent.header[k] = r.Headers[k]

C9_Witness ==
    /\ wire[1].sent # Nil
    /\ given[1].opts.Request.ContentType = "text/plain"
    /\ DOMAIN given[1].opts.Request.Headers = {CType, "X-A"}
    /\ Deref(wire[1].sent).header[CType] = "text/html"
    /\ Deref(wire[1].sent).header["X-A"] = "1"

----------------------------------------------------------------------------
(* C10 *)

\* a step of a running Do call leaves the Client and the call's Request as
\* they are, and changes the call's StartTime only from nil, at entry, to
\* the time of entry
C10_Step ==
    /\ client' = client
    /\ \A p \in Procs :
          InDo(p) =>
              /\ opts'[p].Request = opts[p].Request
              /\ opts[p].StartTime # Nil => opts'[p].StartTime = opts[p].StartTime
              /\ opts'[p].StartTime # opts[p].StartTime =>
                    pc[p] = "entry" /\ opts'[p].StartTime = PtrTo(now)

\* from the entry check on, and after the call returned, StartTime is set:
\* to the caller's value, or to the entry time when the caller's was nil;
\* the Request is the one the caller passed
C10_State ==
    \A p \in Procs :
        pc[p] \notin {"idle", "entry"} =>
            /\ opts[p].Request = given[p].opts.Request
            /\ opts[p].StartTime =
                  IF given[p].opts.StartTime = Nil
                  THEN PtrTo(given[p].entry)
                  ELSE given[p].opts.StartTime

\* C10: over any sequence of Do calls, a Do call changes of the state its
\* caller sees only DoOptions.StartTime, only when it was nil on entry; it
\* is then the entry time and stays so after the return, with a Response or
\* an error; a supplied StartTime, the Request and the Client's
\* configuration stay as they were.
C10_Frame == [][C10_Step]_vars /\ []C10_State

C10_Witness ==
    /\ Failed(1)
    /\ given[1].opts.StartTime = Nil
    /\ given[1].entry = HalfMs
    /\ opts[1].StartTime = PtrTo(HalfMs)
    /\ opts[1].Request = given[1].opts.Request
    /\ now = 2 * HalfMs

====
